---- MODULE Spec2Model ----
(***************************************************************************)
(* Model of the PySpark notebook pySpark+2.0+modeling+MLADS.ipynb: the     *)
(* notebook's names are the state, its cells (and, for the long validation *)
(* cell, its statements) are the actions.  A cell can run once the names   *)
(* it reads are defined.  Calls into Spark are modelled by what the call   *)
(* with the arguments written in the notebook does.                        *)
(***************************************************************************)
EXTENDS Integers, Sequences, FiniteSets, TLC

VARIABLES
    taxi_train_df,                   \* rows read from taxi_train_file_loc
    taxi_valid_df,                   \* rows read from taxi_valid_file_loc
    hashOrder,                       \* iteration order of the label counts map
    defined,                         \* notebook names bound so far
    raised,                          \* cells that ended with an exception
    taxi_df_train_cleaned,
    taxi_df_train_with_newFeatures,
    encodedFinal,
    trainData,
    testData,
    model,
    modelDir,                        \* what model.save wrote
    savedModel,
    cvFolds,                         \* what crossval.fit did in each fold
    cvModel,
    taxi_df_valid_cleaned,
    taxi_df_valid_with_newFeatures,
    encodedFinalValid,
    predictions,                     \* cvModel.bestModel.transform(encodedFinalValid)
    partitionOf,                     \* partition holding each row of taxi_train_df
    taskOut                          \* what the tasks computed for each row so far

vars == <<taxi_train_df, taxi_valid_df, hashOrder, defined, raised,
          taxi_df_train_cleaned, taxi_df_train_with_newFeatures, encodedFinal,
          trainData, testData, model, modelDir, savedModel, cvFolds, cvModel,
          taxi_df_valid_cleaned, taxi_df_valid_with_newFeatures,
          encodedFinalValid, predictions, partitionOf, taskOut>>

trainVars == <<taxi_df_train_cleaned, taxi_df_train_with_newFeatures, encodedFinal,
               trainData, testData, model, modelDir, savedModel, cvFolds, cvModel>>

validVars == <<taxi_df_valid_cleaned, taxi_df_valid_with_newFeatures,
               encodedFinalValid, predictions>>

inputVars == <<taxi_train_df, taxi_valid_df, hashOrder>>

taskVars == <<partitionOf, taskOut>>

(***************************************************************************)
(* Bounds of the model.                                                    *)
(***************************************************************************)
MaxRows == 2          \* rows of a file in the cleaning runs
HourSlack == 2        \* hours tried below 0 and above 23
MaxPassengers == 9    \* largest passenger_count tried
MaxTrainRows == 2     \* rows of the training file in the modelling runs
MaxValidRows == 2     \* rows of the validation file in the modelling runs
MaxTaskRows == 2      \* rows of the training file in the partitioned runs
NumPartitions == 2    \* partitions the training file is read into

(***************************************************************************)
(* Rows and dataframe operations.                                          *)
(***************************************************************************)
NULL == "NULL"        \* SQL NULL: what a CASE without ELSE yields when no WHEN matches

\* A row of the joined trip and fare file, as far as the notebook uses it.
BaseRow ==
    [medallion |-> "m", hack_license |-> "h", vendor_id |-> "CMT", rate_code |-> 1, payment_type |-> "CRD",
     passenger_count |-> 1, trip_distance |-> 2, trip_time_in_secs |-> 600,
     fare_amount |-> 10, tip_amount |-> 2, total_amount |-> 12,
     pickup_hour |-> 8, weekday |-> 3]

\* DataFrame.drop(col): the row without that column.
Drop(row, cols) == [c \in (DOMAIN row) \ cols |-> row[c]]

\* DataFrame.filter(pred): the rows satisfying pred, in order.
Filter(df, Pred(_)) == SelectSeq(df, Pred)

\* SELECT *, <expression> AS name: every row with one more column.
WithColumn(row, name, value) == (name :> value) @@ row

MapRows(df, F(_)) == [i \in DOMAIN df |-> F(df[i])]

(***************************************************************************)
(* Cell "Data ingestion": drop two columns, filter on passenger_count.     *)
(***************************************************************************)
TrainDropped == {"medallion", "hack_license"}

\* Mutant: the upper bound of the passenger filter taken inclusive.
TrainFilterInclusive(row) == row.passenger_count > 0 /\ row.passenger_count <= 8

TrainFilter(row) == row.passenger_count > 0 /\ row.passenger_count < 8

CleanTrain(df) ==
    Filter(MapRows(df, LAMBDA row : Drop(row, TrainDropped)), TrainFilter)

IngestTrain ==
    /\ "taxi_df_train_cleaned" \notin defined
    /\ taxi_df_train_cleaned' = CleanTrain(taxi_train_df)
    /\ defined' = defined \cup {"taxi_df_train_cleaned"}
    /\ UNCHANGED <<inputVars, taskVars, raised, taxi_df_train_with_newFeatures, encodedFinal,
                   trainData, testData, model, modelDir, savedModel, cvFolds, cvModel,
                   validVars>>

(***************************************************************************)
(* Cell "create four buckets for pickup times" (training data).            *)
(***************************************************************************)
\* Mutant: the first WHEN written with < 6, which leaves hour 6 to no branch.
TrainWhenGap(i, pickup_hour) ==
    CASE i = 1 -> (pickup_hour < 6 \/ pickup_hour >= 20)
      [] i = 2 -> (pickup_hour >= 7 /\ pickup_hour <= 10)
      [] i = 3 -> (pickup_hour >= 11 /\ pickup_hour <= 15)
      [] i = 4 -> (pickup_hour >= 16 /\ pickup_hour <= 19)

\* The i-th WHEN condition of the CASE over taxi_train.
TrainWhen(i, pickup_hour) ==
    CASE i = 1 -> (pickup_hour <= 6 \/ pickup_hour >= 20)
      [] i = 2 -> (pickup_hour >= 7 /\ pickup_hour <= 10)
      [] i = 3 -> (pickup_hour >= 11 /\ pickup_hour <= 15)
      [] i = 4 -> (pickup_hour >= 16 /\ pickup_hour <= 19)

\* The i-th THEN value.
ThenLabel(i) ==
    CASE i = 1 -> "Night"
      [] i = 2 -> "AMRush"
      [] i = 3 -> "Afternoon"
      [] i = 4 -> "PMRush"

\* CASE WHEN ... END: the THEN of the first WHEN that is true, tried in the
\* given order, NULL when none is.
RECURSIVE CaseWhen(_, _, _)
CaseWhen(When(_, _), order, h) ==
    IF order = <<>> THEN NULL
    ELSE IF When(Head(order), h) THEN ThenLabel(Head(order))
    ELSE CaseWhen(When, Tail(order), h)

WrittenOrder == <<1, 2, 3, 4>>

TrainTrafficTimeBins(pickup_hour) == CaseWhen(TrainWhen, WrittenOrder, pickup_hour)

BinsTrain ==
    /\ "taxi_df_train_cleaned" \in defined
    /\ "taxi_df_train_with_newFeatures" \notin defined
    /\ taxi_df_train_with_newFeatures' =
          MapRows(taxi_df_train_cleaned,
                  LAMBDA row : WithColumn(row, "TrafficTimeBins",
                                          TrainTrafficTimeBins(row.pickup_hour)))
    /\ defined' = defined \cup {"taxi_df_train_with_newFeatures"}
    /\ UNCHANGED <<inputVars, taskVars, raised, taxi_df_train_cleaned, encodedFinal,
                   trainData, testData, model, modelDir, savedModel, cvFolds, cvModel,
                   validVars>>

(***************************************************************************)
(* Validation cell, first statements: drop columns, filter, bucket.        *)
(***************************************************************************)
\* Of the columns dropped here the rows carry these three.
ValidDropped == {"medallion", "hack_license", "total_amount"}

\* Mutant: the fare bound written as > 1 instead of >= 1.
ValidFilterStrictFare(row) ==
    /\ row.passenger_count > 0 /\ row.passenger_count < 8
    /\ row.payment_type \in {"CSH", "CRD"}
    /\ row.tip_amount >= 0 /\ row.tip_amount < 30
    /\ row.fare_amount > 1 /\ row.fare_amount < 200
    /\ row.trip_distance > 0 /\ row.trip_distance < 100
    /\ row.trip_time_in_secs > 30 /\ row.trip_time_in_secs < 7200

ValidFilter(row) ==
    /\ row.passenger_count > 0 /\ row.passenger_count < 8
    /\ row.payment_type \in {"CSH", "CRD"}
    /\ row.tip_amount >= 0 /\ row.tip_amount < 30
    /\ row.fare_amount >= 1 /\ row.fare_amount < 200
    /\ row.trip_distance > 0 /\ row.trip_distance < 100
    /\ row.trip_time_in_secs > 30 /\ row.trip_time_in_secs < 7200

CleanValid(df) ==
    Filter(MapRows(df, LAMBDA row : Drop(row, ValidDropped)), ValidFilter)

IngestValid ==
    /\ "taxi_df_valid_cleaned" \notin defined
    /\ taxi_df_valid_cleaned' = CleanValid(taxi_valid_df)
    /\ defined' = defined \cup {"taxi_df_valid_cleaned"}
    /\ UNCHANGED <<inputVars, taskVars, raised, trainVars, taxi_df_valid_with_newFeatures,
                   encodedFinalValid, predictions>>

\* Mutant: the second WHEN starting at 6, which overlaps the first.
ValidWhenOverlap(i, pickup_hour) ==
    CASE i = 1 -> (pickup_hour <= 6 \/ pickup_hour >= 20)
      [] i = 2 -> (pickup_hour >= 6 /\ pickup_hour <= 10)
      [] i = 3 -> (pickup_hour >= 11 /\ pickup_hour <= 15)
      [] i = 4 -> (pickup_hour >= 16 /\ pickup_hour <= 19)

\* The i-th WHEN condition of the CASE over taxi_valid.
ValidWhen(i, pickup_hour) ==
    CASE i = 1 -> (pickup_hour <= 6 \/ pickup_hour >= 20)
      [] i = 2 -> (pickup_hour >= 7 /\ pickup_hour <= 10)
      [] i = 3 -> (pickup_hour >= 11 /\ pickup_hour <= 15)
      [] i = 4 -> (pickup_hour >= 16 /\ pickup_hour <= 19)

ValidTrafficTimeBins(pickup_hour) == CaseWhen(ValidWhen, WrittenOrder, pickup_hour)

BinsValid ==
    /\ "taxi_df_valid_cleaned" \in defined
    /\ "taxi_df_valid_with_newFeatures" \notin defined
    /\ taxi_df_valid_with_newFeatures' =
          MapRows(taxi_df_valid_cleaned,
                  LAMBDA row : WithColumn(row, "TrafficTimeBins",
                                          ValidTrafficTimeBins(row.pickup_hour)))
    /\ defined' = defined \cup {"taxi_df_valid_with_newFeatures"}
    /\ UNCHANGED <<inputVars, taskVars, raised, trainVars, taxi_df_valid_cleaned,
                   encodedFinalValid, predictions>>

(***************************************************************************)
(* Cell "Indexing and one-hot encoding of categorical features".           *)
(***************************************************************************)
Range(seq) == {seq[i] : i \in DOMAIN seq}

Pos(seq, v) == CHOOSE i \in DOMAIN seq : seq[i] = v

Reverse(seq) == [i \in DOMAIN seq |-> seq[Len(seq) + 1 - i]]

\* The input columns of sI1..sI4, in pipeline order.
CategoricalCols == <<"vendor_id", "rate_code", "payment_type", "TrafficTimeBins">>

\* outputCol of sI1..sI4.
IndexCol(c) ==
    CASE c = "vendor_id" -> "vendorIndex"
      [] c = "rate_code" -> "rateIndex"
      [] c = "payment_type" -> "paymentIndex"
      [] c = "TrafficTimeBins" -> "TrafficTimeBinsIndex"

\* outputCol of en1..en4.
VecCol(c) ==
    CASE c = "vendor_id" -> "vendorVec"
      [] c = "rate_code" -> "rateVec"
      [] c = "payment_type" -> "paymentVec"
      [] c = "TrafficTimeBins" -> "TrafficTimeBinsVec"

\* StringIndexer casts its input column to string: rate_code is read as an integer.
IntString(n) == CASE n = 1 -> "1" [] n = 2 -> "2" [] OTHER -> "n"

ColString(row, c) == IF c = "rate_code" THEN IntString(row[c]) ELSE row[c]

Values(df, c) == {ColString(df[i], c) : i \in DOMAIN df}

Freq(df, c, v) == Cardinality({i \in DOMAIN df : ColString(df[i], c) = v})

\* StringIndexer.fit: the distinct values by descending count; values of
\* equal count stay in the iteration order of the counts map.
StringIndexerFit(df, c) ==
    LET V == Values(df, c)
        Before(a, b) == \/ Freq(df, c, a) > Freq(df, c, b)
                        \/ /\ Freq(df, c, a) = Freq(df, c, b)
                           /\ Pos(hashOrder, a) < Pos(hashOrder, b)
    IN  CHOOSE labels \in [1..Cardinality(V) -> V] :
            \A i, j \in DOMAIN labels : i < j => Before(labels[i], labels[j])

\* Mutant: the encoders constructed without dropLast=False (the default drops the last).
DropLastDefault == TRUE

\* dropLast of en1..en4.
DropLast == FALSE

\* handleInvalid of sI1..sI4: not passed, so StringIndexer's default.
HandleInvalid == "error"

\* OneHotEncoder.transform: a vector as long as the indexed column has labels
\* (one less with dropLast), set at the index.
OneHot(index, numLabels) ==
    LET size == IF DropLast THEN numLabels - 1 ELSE numLabels
    IN  [i \in 1..size |-> IF i = index + 1 THEN 1 ELSE 0]

\* Pipeline(stages=[sI1, en1, sI2, en2, sI3, en3, sI4, en4]).fit(df): the four label arrays.
EncoderFit(df) == [i \in DOMAIN CategoricalCols |-> StringIndexerFit(df, CategoricalCols[i])]

Seen(labels, row) ==
    \A i \in DOMAIN CategoricalCols : ColString(row, CategoricalCols[i]) \in Range(labels[i])

RECURSIVE EncodeRow(_, _, _)
EncodeRow(labels, row, i) ==
    IF i > Len(CategoricalCols) THEN row
    ELSE LET c == CategoricalCols[i]
             index == Pos(labels[i], ColString(row, c)) - 1
         IN  EncodeRow(labels,
                       WithColumn(WithColumn(row, IndexCol(c), index),
                                  VecCol(c), OneHot(index, Len(labels[i]))),
                       i + 1)

\* PipelineModel.transform(df): the rows with the eight new columns.  A row
\* with a label the indexer has not seen raises under handleInvalid="error"
\* and is left out under "skip"; an exception ends the Spark job.
EncoderTransform(labels, df) ==
    LET seen == Filter(df, LAMBDA row : Seen(labels, row))
        todo == IF HandleInvalid = "error" THEN df ELSE seen
    IN  IF Len(seen) < Len(todo)
        THEN [ok |-> FALSE, df |-> <<>>]
        ELSE [ok |-> TRUE, df |-> MapRows(todo, LAMBDA row : EncodeRow(labels, row, 1))]

EncodeCell ==
    /\ "taxi_df_train_with_newFeatures" \in defined
    /\ "encodedFinal" \notin defined
    /\ LET out == EncoderTransform(EncoderFit(taxi_df_train_with_newFeatures),
                                   taxi_df_train_with_newFeatures)
       IN  IF out.ok
           THEN /\ encodedFinal' = out.df
                /\ defined' = defined \cup {"sI", "encodedFinal"}
                /\ raised' = raised
           ELSE /\ encodedFinal' = encodedFinal
                /\ defined' = defined \cup {"sI"}
                /\ raised' = raised \cup {"encode"}
    /\ UNCHANGED <<inputVars, taskVars, taxi_df_train_cleaned, taxi_df_train_with_newFeatures,
                   trainData, testData, model, modelDir, savedModel, cvFolds, cvModel,
                   validVars>>

(***************************************************************************)
(* Cell "Create a random sampling of the data ... split into train/test".  *)
(***************************************************************************)
\* The rows of df whose position satisfies keep, in order.
RECURSIVE Pick(_, _, _)
Pick(df, keep, i) ==
    IF i > Len(df) THEN <<>>
    ELSE (IF keep[i] THEN <<df[i]>> ELSE <<>>) \o Pick(df, keep, i + 1)

\* sample(False, 0.5, seed) keeps or leaves each row; randomSplit sends each
\* kept row to one of the two parts.
SplitCell ==
    /\ "encodedFinal" \in defined
    /\ "trainData" \notin defined
    /\ \E part \in [DOMAIN encodedFinal -> {"unsampled", "train", "test"}] :
          /\ trainData' = Pick(encodedFinal,
                               [i \in DOMAIN encodedFinal |-> part[i] = "train"], 1)
          /\ testData' = Pick(encodedFinal,
                              [i \in DOMAIN encodedFinal |-> part[i] = "test"], 1)
    /\ defined' = defined \cup {"trainData", "testData"}
    /\ UNCHANGED <<inputVars, taskVars, raised, taxi_df_train_cleaned,
                   taxi_df_train_with_newFeatures, encodedFinal, model, modelDir,
                   savedModel, cvFolds, cvModel, validVars>>

(***************************************************************************)
(* Cell "Define regression formula ... Fit model ... predict on test data".*)
(***************************************************************************)
\* Mutant: the formula written over the raw categorical columns.
FormulaTermsRaw ==
    <<"payment_type", "vendor_id", "rate_code", "TrafficTimeBins", "pickup_hour", "weekday",
      "passenger_count", "trip_time_in_secs", "trip_distance", "fare_amount">>

\* Mutant: the first two terms of the formula exchanged.
FormulaTermsSwapped ==
    <<"vendorIndex", "paymentIndex", "rateIndex", "TrafficTimeBinsIndex", "pickup_hour",
      "weekday", "passenger_count", "trip_time_in_secs", "trip_distance", "fare_amount">>

\* The right-hand side of regFormula, in the order written.
FormulaTerms ==
    <<"paymentIndex", "vendorIndex", "rateIndex", "TrafficTimeBinsIndex", "pickup_hour",
      "weekday", "passenger_count", "trip_time_in_secs", "trip_distance", "fare_amount">>

\* The left-hand side of regFormula.
FormulaLabel == "tip_amount"

\* The stages of the modelling pipeline.
PipelineStages == <<"RFormula", "VectorIndexer", "RandomForestRegressor">>

\* RFormulaModel.transform on one row: the terms' columns, in order (all are numeric).
Assemble(terms, row) == [i \in DOMAIN terms |-> row[terms[i]]]

\* Pipeline(stages=[regFormula, featureIndexer, randForest]).fit(df).  What the
\* forest learns is opaque: the model keeps the examples it was fitted on.
PipelineFit(df) ==
    [stages |-> PipelineStages,
     terms |-> FormulaTerms,
     label |-> FormulaLabel,
     fittedOn |-> [i \in DOMAIN df |-> <<Assemble(FormulaTerms, df[i]), df[i][FormulaLabel]>>]]

\* Whether a row has the columns a fitted pipeline reads.
Scorable(m, row) == \A i \in DOMAIN m.terms : m.terms[i] \in DOMAIN row

\* PipelineModel.transform(df): features, label and prediction columns.
PipelineTransform(m, df) ==
    MapRows(df, LAMBDA row :
        WithColumn(WithColumn(WithColumn(row, "features", Assemble(m.terms, row)),
                              "label", row[m.label]),
                   "prediction", "yhat"))

\* VectorIndexer.fit refuses an empty dataset, so fitting the pipeline on one raises.
FitCell ==
    /\ "trainData" \in defined
    /\ "model" \notin defined
    /\ "fit" \notin raised
    /\ IF trainData = <<>>
       THEN /\ raised' = raised \cup {"fit"}
            /\ UNCHANGED <<model, predictions, defined>>
       ELSE /\ model' = PipelineFit(trainData)
            /\ predictions' = [by |-> "model", of |-> "testData",
                               rows |-> PipelineTransform(model', testData)]
            /\ defined' = defined \cup {"model", "predictions"}
            /\ raised' = raised
    /\ UNCHANGED <<inputVars, taskVars, taxi_df_train_cleaned, taxi_df_train_with_newFeatures,
                   encodedFinal, trainData, testData, modelDir, savedModel, cvFolds,
                   cvModel, taxi_df_valid_cleaned, taxi_df_valid_with_newFeatures,
                   encodedFinalValid>>

(***************************************************************************)
(* Cell "Save the model, then load it and evaluate test data".             *)
(***************************************************************************)
\* model.save(path): the fitted stages written under the path.
Save(m) == [RandomForestRegressionModel |-> m]

\* PipelineModel.load(path).
Load(dir) == dir.RandomForestRegressionModel

SaveLoadCell ==
    /\ "model" \in defined
    /\ "savedModel" \notin defined
    /\ modelDir' = Save(model)
    /\ savedModel' = Load(modelDir')
    /\ predictions' = [by |-> "savedModel", of |-> "testData",
                       rows |-> PipelineTransform(savedModel', testData)]
    /\ defined' = defined \cup {"savedModel"}
    /\ UNCHANGED <<inputVars, taskVars, raised, taxi_df_train_cleaned,
                   taxi_df_train_with_newFeatures, encodedFinal, trainData, testData,
                   model, cvFolds, cvModel, taxi_df_valid_cleaned,
                   taxi_df_valid_with_newFeatures, encodedFinalValid>>

(***************************************************************************)
(* Cell "Hyper-parameter tuning ... cross-validation".                     *)
(***************************************************************************)
numFolds == 3

\* crossval.fit(df): every row is held out in one fold; in each fold the
\* pipeline is fitted on the other rows.  The best parameters are then
\* refitted on all of df.
CrossValCell ==
    /\ "trainData" \in defined
    /\ "cvModel" \notin defined
    /\ "cv" \notin raised
    /\ \E foldOf \in [DOMAIN trainData -> 1..numFolds] :
          LET training(k) == Pick(trainData,
                                  [i \in DOMAIN trainData |-> foldOf[i] # k], 1)
              validation(k) == Pick(trainData,
                                    [i \in DOMAIN trainData |-> foldOf[i] = k], 1)
          IN  IF \E k \in 1..numFolds : training(k) = <<>>
              THEN /\ raised' = raised \cup {"cv"}
                   /\ UNCHANGED <<cvFolds, cvModel, predictions, defined>>
              ELSE /\ cvFolds' = [k \in 1..numFolds |->
                                     [training |-> training(k),
                                      validation |-> validation(k),
                                      fitted |-> PipelineFit(training(k))]]
                   /\ cvModel' = [bestModel |-> PipelineFit(trainData)]
                   /\ predictions' = [by |-> "cvModel", of |-> "testData",
                                      rows |-> PipelineTransform(cvModel'.bestModel,
                                                                 testData)]
                   /\ defined' = defined \cup {"cvModel", "predictions"}
                   /\ raised' = raised
    /\ UNCHANGED <<inputVars, taskVars, taxi_df_train_cleaned, taxi_df_train_with_newFeatures,
                   encodedFinal, trainData, testData, model, modelDir, savedModel,
                   taxi_df_valid_cleaned, taxi_df_valid_with_newFeatures,
                   encodedFinalValid>>

(***************************************************************************)
(* Validation cell, last statements: encode and score.                     *)
(***************************************************************************)
\* Mutant: the encoders fitted on the validation table.
ValidFitDataValid == taxi_df_valid_with_newFeatures

\* The argument of .fit in the statement that builds encodedFinalValid.
ValidFitData == taxi_df_train_with_newFeatures

\* The transformations are lazy: an unseen label raises when the job runs, in
\* evaluator.evaluate of the same cell, and nothing has been scored.
EncodeValid ==
    /\ {"sI", "taxi_df_train_with_newFeatures", "taxi_df_valid_with_newFeatures"}
          \subseteq defined
    /\ "encodedFinalValid" \notin defined
    /\ "valid" \notin raised
    /\ LET out == EncoderTransform(EncoderFit(ValidFitData),
                                   taxi_df_valid_with_newFeatures)
       IN  IF out.ok
           THEN /\ encodedFinalValid' = out.df
                /\ defined' = defined \cup {"encodedFinalValid"}
                /\ raised' = raised
           ELSE /\ encodedFinalValid' = encodedFinalValid
                /\ defined' = defined
                /\ raised' = raised \cup {"valid"}
    /\ UNCHANGED <<inputVars, taskVars, trainVars, taxi_df_valid_cleaned,
                   taxi_df_valid_with_newFeatures, predictions>>

PredictValid ==
    /\ {"encodedFinalValid", "cvModel"} \subseteq defined
    /\ "r2_valid" \notin defined
    /\ predictions' = [by |-> "cvModel.bestModel", of |-> "encodedFinalValid",
                       rows |-> PipelineTransform(cvModel.bestModel, encodedFinalValid)]
    /\ defined' = defined \cup {"r2_valid"}
    /\ UNCHANGED <<inputVars, taskVars, raised, trainVars, taxi_df_valid_cleaned,
                   taxi_df_valid_with_newFeatures, encodedFinalValid>>

(***************************************************************************)
(* Partitioned evaluation of the per-row statements over taxi_train_df.    *)
(* Spark holds the rows of a DataFrame in partitions and evaluates filter, *)
(* the SQL projection and the fitted indexers by one task per partition:   *)
(* a task takes the rows of its partition in order, tasks of different     *)
(* partitions interleave in any way.  taskOut[i] is what the tasks have    *)
(* computed for row i of the file.                                         *)
(***************************************************************************)
Partitions == 1..NumPartitions

NoOutput == [stage |-> "read", keep |-> FALSE, TrafficTimeBins |-> NULL, index |-> <<>>]

\* spark.read.csv: the rows of the file spread over the partitions.
Repartition ==
    /\ partitionOf = <<>>
    /\ \E p \in [DOMAIN taxi_train_df -> Partitions] : partitionOf' = p
    /\ taskOut' = [i \in DOMAIN taxi_train_df |-> NoOutput]
    /\ UNCHANGED <<inputVars, defined, raised, trainVars, validVars>>

\* How far the tasks are with a row; a row the filter drops is finished.
Rank(out) ==
    CASE out.stage = "read" -> 0
      [] out.stage = "filtered" -> IF out.keep THEN 1 ELSE 3
      [] out.stage = "binned" -> 2
      [] out.stage = "encoded" -> 3

\* Row i is the next row of its partition at this rank.
Ready(i, rank) ==
    /\ i \in DOMAIN taskOut
    /\ Rank(taskOut[i]) = rank
    /\ \A j \in 1..(i - 1) :
          partitionOf[j] = partitionOf[i] => Rank(taskOut[j]) > rank

\* Mutant: a filter that also looks at the row before (keeps a row only
\* after a kept row).
TaskFilterAfterPrevious(df, i) ==
    /\ TrainFilter(Drop(df[i], TrainDropped))
    /\ i > 1 => TrainFilter(Drop(df[i - 1], TrainDropped))

\* drop(...).filter(...) evaluated on row i: the predicate on that row.
TaskFilter(df, i) == TrainFilter(Drop(df[i], TrainDropped))

\* The CASE evaluated on row i.
TaskBins(df, i) == TrainTrafficTimeBins(df[i].pickup_hour)

\* The fitted sI1..sI4 evaluated on one row: the position of its labels.
TaskIndex(labels, row) ==
    [k \in DOMAIN CategoricalCols |->
        Pos(labels[k], ColString(row, CategoricalCols[k])) - 1]

RunFilterTask ==
    \E i \in DOMAIN taskOut :
        /\ Ready(i, 0)
        /\ taskOut' = [taskOut EXCEPT ![i].stage = "filtered",
                                      ![i].keep = TaskFilter(taxi_train_df, i)]
        /\ UNCHANGED <<inputVars, partitionOf, defined, raised, trainVars, validVars>>

RunBinsTask ==
    \E i \in DOMAIN taskOut :
        /\ Ready(i, 1)
        /\ taskOut' = [taskOut EXCEPT ![i].stage = "binned",
                                      ![i].TrafficTimeBins = TaskBins(taxi_train_df, i)]
        /\ UNCHANGED <<inputVars, partitionOf, defined, raised, trainVars, validVars>>

\* transform of the fitted pipeline: runs once fit has returned the labels.
RunEncodeTask ==
    \E i \in DOMAIN taskOut :
        /\ Ready(i, 2)
        /\ "sI" \in defined
        /\ LET labels == EncoderFit(taxi_df_train_with_newFeatures)
               row == WithColumn(Drop(taxi_train_df[i], TrainDropped),
                                 "TrafficTimeBins", taskOut[i].TrafficTimeBins)
           IN  /\ Seen(labels, row)
               /\ taskOut' = [taskOut EXCEPT ![i].stage = "encoded",
                                             ![i].index = TaskIndex(labels, row)]
        /\ UNCHANGED <<inputVars, partitionOf, defined, raised, trainVars, validVars>>

(***************************************************************************)
(* Initial states: the two files have been read, nothing else is bound.    *)
(***************************************************************************)
SeqsUpTo(S, n) == UNION {[1..k -> S] : k \in 1..n}

Unbound ==
    /\ defined = {}
    /\ raised = {}
    /\ taxi_df_train_cleaned = <<>>
    /\ taxi_df_train_with_newFeatures = <<>>
    /\ encodedFinal = <<>>
    /\ trainData = <<>>
    /\ testData = <<>>
    /\ model = <<>>
    /\ modelDir = <<>>
    /\ savedModel = <<>>
    /\ cvFolds = <<>>
    /\ cvModel = <<>>
    /\ taxi_df_valid_cleaned = <<>>
    /\ taxi_df_valid_with_newFeatures = <<>>
    /\ encodedFinalValid = <<>>
    /\ predictions = <<>>
    /\ partitionOf = <<>>
    /\ taskOut = <<>>

\* One iteration order of the labels a column can hold.
LabelOrder ==
    <<"CMT", "VTS", "CRD", "CSH", "NOC", "DIS", "UNK", "1", "2", "n",
      "Night", "AMRush", "Afternoon", "PMRush", NULL>>

\* Files whose rows differ in pickup_hour only.
Hours == (0 - HourSlack) .. (23 + HourSlack)

HourRows == {[BaseRow EXCEPT !.pickup_hour = h] : h \in Hours}

\* The CASE is computed row by row: one row in each file.
InitBins ==
    /\ taxi_train_df \in {<<row>> : row \in HourRows}
    /\ taxi_valid_df \in {<<row>> : row \in HourRows}
    /\ hashOrder = LabelOrder
    /\ Unbound

\* Files whose rows differ from BaseRow in one of the filtered columns.
CleanRows ==
    {[BaseRow EXCEPT !.passenger_count = v] : v \in 0..MaxPassengers}
    \cup {[BaseRow EXCEPT !.payment_type = v] : v \in {"CSH", "CRD", "NOC", "DIS", "UNK"}}
    \cup {[BaseRow EXCEPT !.tip_amount = v] : v \in {0 - 1, 0, 29, 30}}
    \cup {[BaseRow EXCEPT !.fare_amount = v] : v \in {0, 1, 199, 200}}
    \cup {[BaseRow EXCEPT !.trip_distance = v] : v \in {0, 1, 99, 100}}
    \cup {[BaseRow EXCEPT !.trip_time_in_secs = v] : v \in {30, 31, 7199, 7200}}
    \cup {[BaseRow EXCEPT !.passenger_count = 7, !.payment_type = "CSH",
                          !.tip_amount = 29, !.fare_amount = 199,
                          !.trip_distance = 99, !.trip_time_in_secs = 7199],
          [BaseRow EXCEPT !.passenger_count = 8, !.tip_amount = 30]}

InitClean ==
    /\ taxi_train_df \in SeqsUpTo(CleanRows, MaxRows)
    /\ taxi_valid_df = taxi_train_df
    /\ hashOrder = LabelOrder
    /\ Unbound

NextPrep == IngestTrain \/ BinsTrain \/ IngestValid \/ BinsValid

SpecBins == InitBins /\ [][NextPrep]_vars

SpecClean == InitClean /\ [][NextPrep]_vars

\* Files whose rows differ in vendor_id only; both tie orders of the labels.
VendorRows == {[BaseRow EXCEPT !.vendor_id = v] : v \in {"CMT", "VTS"}}

Init ==
    /\ taxi_train_df \in SeqsUpTo(VendorRows, MaxTrainRows)
    /\ taxi_valid_df \in SeqsUpTo(VendorRows, MaxValidRows)
    /\ hashOrder \in {LabelOrder, Reverse(LabelOrder)}
    /\ Unbound

Next ==
    \/ IngestTrain
    \/ BinsTrain
    \/ EncodeCell
    \/ SplitCell
    \/ FitCell
    \/ SaveLoadCell
    \/ CrossValCell
    \/ IngestValid
    \/ BinsValid
    \/ EncodeValid
    \/ PredictValid

Spec == Init /\ [][Next]_vars

\* Files whose rows differ in what the filter, the CASE and the indexers read.
TaskRows ==
    {[BaseRow EXCEPT !.passenger_count = 8],
     [BaseRow EXCEPT !.pickup_hour = 3],
     [BaseRow EXCEPT !.vendor_id = "VTS"],
     [BaseRow EXCEPT !.pickup_hour = 17, !.vendor_id = "VTS"]}

InitTasks ==
    /\ taxi_train_df \in SeqsUpTo(TaskRows, MaxTaskRows)
    /\ taxi_valid_df = taxi_train_df
    /\ hashOrder = LabelOrder
    /\ Unbound

NextTasks ==
    \/ IngestTrain
    \/ BinsTrain
    \/ EncodeCell
    \/ Repartition
    \/ RunFilterTask
    \/ RunBinsTask
    \/ RunEncodeTask

SpecTasks == InitTasks /\ [][NextTasks]_vars

(***************************************************************************)
(* Properties of the time-bucket CASE (SpecBins).                          *)
(***************************************************************************)
Rows(df) == {df[i] : i \in DOMAIN df}

\* The reference table of the four traffic periods.
RefLabel(h) ==
    IF h \in (0..6) \cup (20..23) THEN "Night"
    ELSE IF h \in 7..10 THEN "AMRush"
    ELSE IF h \in 11..15 THEN "Afternoon"
    ELSE IF h \in 16..19 THEN "PMRush"
    ELSE "undefined"

FourLabels == {"Night", "AMRush", "Afternoon", "PMRush"}

\* C1: every row with pickup_hour in 0..23 carries, after the training cell's
\* and after the validation cell's CASE, the label of the reference table
\* (0..6 and 20..23 Night, 7..10 AMRush, 11..15 Afternoon, 16..19 PMRush).
C1_BinsMatchReference ==
    \A row \in Rows(taxi_df_train_with_newFeatures)
               \cup Rows(taxi_df_valid_with_newFeatures) :
        row.pickup_hour \in 0..23 => row.TrafficTimeBins = RefLabel(row.pickup_hour)

\* C1 witness: both cells have run over a file holding the boundary hours 6 and 7.
C1_Witness ==
    /\ {"taxi_df_train_with_newFeatures", "taxi_df_valid_with_newFeatures"} \subseteq defined
    /\ \E r \in Rows(taxi_df_train_with_newFeatures) :
          r.pickup_hour = 6 /\ r.TrafficTimeBins = "Night"
    /\ \E r \in Rows(taxi_df_valid_with_newFeatures) :
          r.pickup_hour = 7 /\ r.TrafficTimeBins = "AMRush"

BranchOrders == {p \in [1..4 -> 1..4] : \A i, j \in 1..4 : p[i] = p[j] => i = j}

\* C2: for every row with pickup_hour in 0..23 exactly one WHEN condition is
\* true, the label is one of the four and never NULL, and trying the WHEN
\* branches in any other order yields the label the cell computed.
C2_BinsPartition ==
    /\ \A row \in Rows(taxi_df_train_with_newFeatures) :
          row.pickup_hour \in 0..23 =>
             /\ Cardinality({i \in 1..4 : TrainWhen(i, row.pickup_hour)}) = 1
             /\ row.TrafficTimeBins \in FourLabels
             /\ \A p \in BranchOrders :
                   CaseWhen(TrainWhen, p, row.pickup_hour) = row.TrafficTimeBins
    /\ \A row \in Rows(taxi_df_valid_with_newFeatures) :
          row.pickup_hour \in 0..23 =>
             /\ Cardinality({i \in 1..4 : ValidWhen(i, row.pickup_hour)}) = 1
             /\ row.TrafficTimeBins \in FourLabels
             /\ \A p \in BranchOrders :
                   CaseWhen(ValidWhen, p, row.pickup_hour) = row.TrafficTimeBins

\* C2 witness: both cells have bucketed a file holding the hours 19 and 20,
\* on either side of a boundary between two ranges.
C2_Witness ==
    /\ {"taxi_df_train_with_newFeatures", "taxi_df_valid_with_newFeatures"} \subseteq defined
    /\ \E r \in Rows(taxi_df_train_with_newFeatures) :
          r.pickup_hour = 19 /\ r.TrafficTimeBins = "PMRush"
    /\ \E r \in Rows(taxi_df_valid_with_newFeatures) :
          r.pickup_hour = 20 /\ r.TrafficTimeBins = "Night"

\* C11: a row whose pickup_hour is outside 0..23 gets, in either cell, none
\* of the four traffic-period labels (it is rejected or put in a fifth bucket).
C11_OutOfRangeHourUnlabelled ==
    \A row \in Rows(taxi_df_train_with_newFeatures)
               \cup Rows(taxi_df_valid_with_newFeatures) :
        row.pickup_hour \notin 0..23 => row.TrafficTimeBins \notin FourLabels

(***************************************************************************)
(* Properties of the cleaning filters (SpecClean).                         *)
(***************************************************************************)
\* The rows of df satisfying P, in order.
RECURSIVE KeptInOrder(_, _)
KeptInOrder(P(_), df) ==
    IF df = <<>> THEN <<>>
    ELSE IF P(Head(df)) THEN <<Head(df)>> \o KeptInOrder(P, Tail(df))
    ELSE KeptInOrder(P, Tail(df))

Without(df, cols) == [i \in DOMAIN df |-> [c \in (DOMAIN df[i]) \ cols |-> df[i][c]]]

PassengersOk(row) == row.passenger_count \in 1..7

\* The other bounds of the validation path, as intervals of the integer grid.
OtherBoundsOk(row) ==
    /\ row.payment_type \in {"CSH", "CRD"}
    /\ row.tip_amount \in 0..29
    /\ row.fare_amount \in 1..199
    /\ row.trip_distance \in 1..99
    /\ row.trip_time_in_secs \in 31..7199

AllBoundsOk(row) == PassengersOk(row) /\ OtherBoundsOk(row)

\* C6: after cleaning, on either path, every row has passenger_count in 1..7;
\* the training path keeps every row with passenger_count in 1..7, and the
\* validation path drops such a row only when another of its bounds fails.
C6_PassengerFilter ==
    /\ "taxi_df_train_cleaned" \in defined =>
          /\ \A row \in Rows(taxi_df_train_cleaned) : PassengersOk(row)
          /\ taxi_df_train_cleaned =
                Without(KeptInOrder(PassengersOk, taxi_train_df),
                        {"medallion", "hack_license"})
    /\ "taxi_df_valid_cleaned" \in defined =>
          /\ \A row \in Rows(taxi_df_valid_cleaned) : PassengersOk(row)
          /\ Len(taxi_df_valid_cleaned) =
                Cardinality({i \in DOMAIN taxi_valid_df :
                                PassengersOk(taxi_valid_df[i])
                                /\ OtherBoundsOk(taxi_valid_df[i])})

\* C6 witness: a file with a row of 8 passengers followed by a row of 7 has
\* been cleaned on both paths, and only the second row is left.
C6_Witness ==
    /\ {"taxi_df_train_cleaned", "taxi_df_valid_cleaned"} \subseteq defined
    /\ Len(taxi_train_df) = 2
    /\ taxi_train_df[1].passenger_count = 8
    /\ taxi_train_df[2].passenger_count = 7
    /\ Len(taxi_df_train_cleaned) = 1
    /\ taxi_df_train_cleaned[1].passenger_count = 7
    /\ Len(taxi_df_valid_cleaned) = 1

\* C7: the cleaned validation table is exactly the rows of the file, in
\* order, that satisfy every bound (payment CSH or CRD, 0 <= tip < 30,
\* 1 <= fare < 200, 0 < distance < 100, 30 < time < 7200, 1..7 passengers).
C7_ValidCleanedExact ==
    "taxi_df_valid_cleaned" \in defined =>
        /\ \A row \in Rows(taxi_df_valid_cleaned) : AllBoundsOk(row)
        /\ taxi_df_valid_cleaned =
              Without(KeptInOrder(AllBoundsOk, taxi_valid_df),
                      {"medallion", "hack_license", "total_amount"})

\* C7 witness: a file with a row at fare 1 (kept) and a row at tip 30
\* (excluded) has been cleaned, leaving the first.
C7_Witness ==
    /\ "taxi_df_valid_cleaned" \in defined
    /\ Len(taxi_valid_df) = 2
    /\ taxi_valid_df[1].fare_amount = 1
    /\ taxi_valid_df[2].tip_amount = 30
    /\ Len(taxi_df_valid_cleaned) = 1
    /\ taxi_df_valid_cleaned[1].fare_amount = 1

(***************************************************************************)
(* Properties of the encoding and modelling cells (Spec).                  *)
(***************************************************************************)
RawColumns(row, cols) == [c \in cols |-> row[c]]

\* C3: in every fold of crossval.fit the index and the one-hot length of each
\* categorical column of the fold's training rows are those of a
\* StringIndexer fitted on that fold's training rows alone.  Stated for the
\* runs in which every encoded row went to trainData, so that the only rows
\* outside a fold's training partition are its held-out rows.
C3_FoldVocabularyFromFoldTraining ==
    ("cvModel" \in defined /\ trainData = encodedFinal) =>
        \A k \in 1..numFolds : \A row \in Rows(cvFolds[k].training) :
            \A i \in DOMAIN CategoricalCols :
                LET c == CategoricalCols[i]
                    labels == StringIndexerFit(cvFolds[k].training, c)
                IN  /\ row[IndexCol(c)] = Pos(labels, ColString(row, c)) - 1
                    /\ Len(row[VecCol(c)]) = Len(labels)

\* C4: once the validation cell has encoded (or raised), every validation row
\* whose four categories are all in the training vocabulary has been encoded,
\* whatever the other rows of the batch carry.
C4_UnseenLabelConfined ==
    ("encodedFinalValid" \in defined \/ "valid" \in raised) =>
        \A row \in Rows(taxi_df_valid_with_newFeatures) :
            Seen(EncoderFit(taxi_df_train_with_newFeatures), row) =>
                \E enc \in Rows(encodedFinalValid) : RawColumns(enc, DOMAIN row) = row

Numerics(row) ==
    <<row.pickup_hour, row.weekday, row.passenger_count, row.trip_time_in_secs,
      row.trip_distance, row.fare_amount>>

\* C9 as claimed: the feature vector is the concatenation of the one-hot
\* segments of the four categorical columns and the raw numeric fields.
C9_FeaturesAreOneHotSegments ==
    "predictions" \in defined =>
        \A row \in Rows(predictions.rows) :
            row.features = row.paymentVec \o row.vendorVec \o row.rateVec
                           \o row.TrafficTimeBinsVec \o Numerics(row)

\* C9 as amended: the feature vector is, in formula order, the four index
\* columns (payment, vendor, rate code, traffic bin: one position each)
\* followed by the six raw numeric fields; it has 10 positions for every
\* row, and rows equal on these columns have equal vectors.
C9_FeaturesAreIndexColumns ==
    "predictions" \in defined =>
        /\ \A row \in Rows(predictions.rows) :
              /\ row.features = <<row.paymentIndex, row.vendorIndex, row.rateIndex,
                                  row.TrafficTimeBinsIndex>> \o Numerics(row)
              /\ Len(row.features) = 10
              /\ row.label = row.tip_amount
        /\ \A r1, r2 \in Rows(predictions.rows) :
              Len(r1.features) = Len(r2.features)

\* C9 witness: a row of the second vendor (index 1, one-hot <<0, 1>>) and of
\* the first payment type (index 0) has been assembled and scored.
C9_Witness ==
    /\ "predictions" \in defined
    /\ \E row \in Rows(predictions.rows) :
          /\ row.vendorIndex = 1
          /\ row.paymentIndex = 0
          /\ row.vendorVec = <<0, 1>>
          /\ row.features[2] = 1

SequentialKept(n) == Len(CleanTrain(SubSeq(taxi_train_df, 1, n)))

====
